---- MODULE Spec2Model ----
(***************************************************************************)
(* Model of static/app.js: the control surface of the coplanar waveguide   *)
(* resonator simulator.  The state is the DOM state the handlers read and  *)
(* write (selectors, parameter panels, checkbox, mode controls, plot), the *)
(* two module globals (currentPlotType, lorentzianTraces), the pending     *)
(* debounce timeouts and the simulate calls that are awaiting a response.  *)
(***************************************************************************)
EXTENDS Integers, Sequences, FiniteSets, TLC

VARIABLES
  opts,              \* the catalog returned by fetchOptions (option order, defaults)
  selectValue,       \* .value of tSelect, inSelect, outSelect, symmetricSelect, sSelect
  paramsContainer,   \* per container: label text -> .value of its .param-number input
  symmetric,         \* symmetricCheckbox.checked
  modeNumber,        \* modeNumber.value (a string)
  modeRange,         \* modeRange.value (a string)
  currentPlotType,   \* module global, line 166
  lorentzianTraces,  \* module global, line 167
  timers,            \* delays of the pending setTimeout calls made by debounce
  inflight,          \* simulate calls suspended at `await fetch`, oldest first
  lastReq,           \* <<body>> of the most recent POST /api/simulate, <<>> before it
  display,           \* what the last reconciled response left on screen
  plotData,          \* document.getElementById('plot').data
  resTabDisabled,    \* .disabled of the res_vs_coupling tab
  range,             \* the definition _computeRange was last given and its result
  storedParams,      \* history: last values each tracked (selector, key) panel held
  saveClicks         \* history: clicks of the save button since the last clear

vars == <<opts, selectValue, paramsContainer, symmetric, modeNumber, modeRange,
          currentPlotType, lorentzianTraces, timers, inflight, lastReq, display,
          plotData, resTabDisabled, range, storedParams, saveClicks>>

----------------------------------------------------------------------------
(* Bounds of the model *)

MaxInFlight == 2      \* simulate calls awaiting a response at the same time
MaxSaves    == 2      \* counted clicks of the save button between two clears
MaxTyped    == 12     \* largest integer typed into the mode-number field
MaxMagnitude == 1     \* largest magnitude of a small number in a definition

(* Program constants *)

DebounceWait == 250   \* debounce(..., 250)
ModeMin == 1          \* if (v < 1) v = 1
ModeMax == 10         \* if (v > 10) v = 10

----------------------------------------------------------------------------
(* JavaScript values *)

Undefined == "undefined"
Null == <<>>                  \* JSON null; a number n is carried as <<n>>
Num(n) == <<n>>

\* String(n) for the integers the model uses
DecimalText == <<"0", "1", "2", "3", "4", "5", "6", "7", "8", "9", "10", "11", "12", "13">>
Str(n) == IF n \in 0..(Len(DecimalText) - 1) THEN DecimalText[n + 1]
          ELSE IF -n \in 1..2 THEN <<"-1", "-2">>[-n]
          ELSE "NaN"

\* Number(s) for a non-empty value of an <input type=number>
NumberOf(s) ==
  IF s = "7.0" THEN 7
  ELSE IF s = "-1" THEN -1
  ELSE IF s = "-2" THEN -2
  ELSE CHOOSE n \in 0..(Len(DecimalText) - 1) : DecimalText[n + 1] = s

\* the strings parseInt turns into an integer (a number field holds '' for
\* anything that is not a number)
IsNumeric(s) == s # "" /\ s # "NaN"

\* parseInt(s), for numeric s: the integer prefix
ParseInt(s) == IF s = "2.5" THEN 2 ELSE NumberOf(s)

\* parseInt(s) || 1
ParseIntOr1(s) == IF ~IsNumeric(s) THEN 1
                  ELSE IF ParseInt(s) = 0 THEN 1 ELSE ParseInt(s)

----------------------------------------------------------------------------
(* The catalog served by /api/options *)

Slots == {"t", "in", "out", "symmetric", "s"}

\* the category whose options a selector lists (the optionsMap handed to
\* buildSelector and renderParamsFor)
Category(slot) == IF slot = "t" THEN "transition_lines"
                  ELSE IF slot = "s" THEN "substrates"
                  ELSE "capacitor_couplings"

\* entry.parameters of every option: parameter name -> ParameterDefinition
Parameters ==
  [T1 |-> [length |-> [default |-> 1]],
   T2 |-> [length |-> [default |-> 2]],
   C1 |-> [gap |-> [default |-> 1]],
   C2 |-> [fingers |-> [default |-> 2]],
   S1 |-> [permittivity |-> [default |-> 3]],
   S2 |-> [loss |-> [min |-> 0, max |-> 1]]]

\* the orders in which a category's options can be listed
Orders(a, b) == {<<a, b>>, <<b, a>>}

CatalogDefaults == [transition_line |-> "T1", input_coupling |-> "C1",
                    output_coupling |-> "C1", substrate |-> "S1"]

Catalogs ==
  [transition_lines : Orders("T1", "T2"),
   capacitor_couplings : Orders("C1", "C2"),
   substrates : Orders("S1", "S2"),
   defaults : {CatalogDefaults}]

\* the catalog that lists the default options first
ListedCatalog ==
  [transition_lines |-> <<"T1", "T2">>, capacitor_couplings |-> <<"C1", "C2">>,
   substrates |-> <<"S1", "S2">>, defaults |-> CatalogDefaults]

Range(seq) == {seq[i] : i \in 1..Len(seq)}

\* o.f of a JavaScript object
Field(o, f) == IF f \in DOMAIN o THEN o[f] ELSE Undefined

----------------------------------------------------------------------------
(* Helpers of app.js *)

\* a debounce that sets a new timeout without clearing the pending one
DebounceNoClear(ts) == Append(ts, DebounceWait)

\* debounce: the wrapper clears the timeout it set last and sets a new one
Debounce(ts) ==
  Append(IF ts # <<>> THEN SubSeq(ts, 1, Len(ts) - 1) ELSE ts, DebounceWait)

\* Numbers of _computeRange are carried as integer multiples of 1e-6, the
\* smallest number it produces (line 38)
Scale == 1000000

Abs(x) == IF x < 0 THEN 0 - x ELSE x
Larger(x, y) == IF x > y THEN x ELSE y

\* Math.round of a non-negative number: the nearest integer, halves upwards
Round(x) == ((x + Scale \div 2) \div Scale) * Scale

\* Number.isInteger
IsInteger(x) == x % Scale = 0

\* defn.f is neither undefined nor null
Given(defn, f) == f \in DOMAIN defn

\* a range inference that applies the formula of positive defaults to every
\* non-zero default
ComputeRangeUnsigned(defn) ==
  LET d == IF Given(defn, "default") THEN defn.default * Scale ELSE 0
      heuristic == ~Given(defn, "min") \/ ~Given(defn, "max")
      min == IF ~heuristic THEN defn.min * Scale
             ELSE IF d = 0 THEN 0 - Scale
             ELSE Larger(d \div 100, d \div 2)
      max == IF ~heuristic THEN defn.max * Scale
             ELSE IF d = 0 THEN Scale
             ELSE (3 * d) \div 2
      span == Abs(max - min)
      step == IF Given(defn, "step") /\ defn.step # 0 THEN defn.step * Scale
              ELSE IF span = 0
                   THEN IF Abs(d) \div 100 # 0 THEN Abs(d) \div 100 ELSE 1
                   ELSE IF IsInteger(min) /\ IsInteger(max) /\ span \div 100 >= Scale
                        THEN Larger(Scale, Round(span \div 100))
                        ELSE span \div 100
  IN [min |-> min, max |-> max, step |-> step, default |-> d]

\* _computeRange, lines 16-46
ComputeRange(defn) ==
  LET d == IF Given(defn, "default") THEN defn.default * Scale ELSE 0
      heuristic == ~Given(defn, "min") \/ ~Given(defn, "max")
      low == (3 * d) \div 2
      high == d \div 2
      min == IF ~heuristic THEN defn.min * Scale
             ELSE IF d = 0 THEN 0 - Scale
             ELSE IF d > 0 THEN Larger(d \div 100, d \div 2)
             ELSE IF low > high THEN high ELSE low
      max == IF ~heuristic THEN defn.max * Scale
             ELSE IF d = 0 THEN Scale
             ELSE IF d > 0 THEN (3 * d) \div 2
             ELSE IF low > high THEN low ELSE high
      span == Abs(max - min)
      step == IF Given(defn, "step") /\ defn.step # 0 THEN defn.step * Scale
              ELSE IF span = 0
                   THEN IF Abs(d) \div 100 # 0 THEN Abs(d) \div 100 ELSE 1
                   ELSE IF IsInteger(min) /\ IsInteger(max) /\ span \div 100 >= Scale
                        THEN Larger(Scale, Round(span \div 100))
                        ELSE span \div 100
  IN [min |-> min, max |-> max, step |-> step, default |-> d]

\* a control whose number input is never given a value
ControlValueBlank(defn) == ""

\* createParamControl: the value the number input is given
ControlValue(defn) ==
  IF "default" \in DOMAIN defn THEN Str(defn.default) ELSE Str(0)

\* renderParamsFor: the container is emptied and gets one control per
\* parameter of the option the selector names, none if it names no option
RenderParamsFor(o, slot, select) ==
  LET key == select[slot] IN
  IF key \in Range(o[Category(slot)])
  THEN [pname \in DOMAIN Parameters[key] |-> ControlValue(Parameters[key][pname])]
  ELSE <<>>

\* buildSelector: selectEl.value = defaultValue || selectEl.options[0].value
\* (a value that is no option leaves the selector empty)
BuildSelector(keys, defaultValue) ==
  LET v == IF defaultValue = Undefined \/ defaultValue = "" THEN keys[1]
           ELSE defaultValue
  IN IF v \in Range(keys) THEN v ELSE ""

\* collectParams: label text -> null for an empty input, Number(value) otherwise
CollectParams(container) ==
  [name \in DOMAIN container |->
     IF container[name] = "" THEN Null ELSE Num(NumberOf(container[name]))]

\* copyParamValues: every control of dst whose label src has with a non-null
\* value is given that value; the others are left alone
CopyParamValues(srcContainer, dstContainer) ==
  LET src == CollectParams(srcContainer) IN
  [name \in DOMAIN dstContainer |->
     IF name \in DOMAIN src /\ src[name] # Null
     THEN Str(src[name][1]) ELSE dstContainer[name]]

\* a request body that takes the coupling parameters from the input and
\* output panels whatever the checkbox says
PayloadOwnPanels ==
  LET symName == selectValue["symmetric"] IN
  [transition_line |-> selectValue["t"],
   input_coupling |-> IF symmetric THEN symName ELSE selectValue["in"],
   output_coupling |-> IF symmetric THEN symName ELSE selectValue["out"],
   substrate |-> selectValue["s"],
   transition_line_params |-> CollectParams(paramsContainer["t"]),
   input_coupling_params |-> CollectParams(paramsContainer["in"]),
   output_coupling_params |-> CollectParams(paramsContainer["out"]),
   substrate_params |-> CollectParams(paramsContainer["s"]),
   n |-> ParseIntOr1(modeNumber),
   plot_type |-> currentPlotType]

\* doSimulate, lines 225-265: the request body built when the timeout fires
Payload ==
  LET symName == selectValue["symmetric"]
      inputParams == IF symmetric THEN CollectParams(paramsContainer["symmetric"])
                     ELSE CollectParams(paramsContainer["in"])
      outputParams == IF symmetric THEN inputParams
                      ELSE CollectParams(paramsContainer["out"])
  IN [transition_line |-> selectValue["t"],
      input_coupling |-> IF symmetric THEN symName ELSE selectValue["in"],
      output_coupling |-> IF symmetric THEN symName ELSE selectValue["out"],
      substrate |-> selectValue["s"],
      transition_line_params |-> CollectParams(paramsContainer["t"]),
      input_coupling_params |-> inputParams,
      output_coupling_params |-> outputParams,
      substrate_params |-> CollectParams(paramsContainer["s"]),
      n |-> ParseIntOr1(modeNumber),
      plot_type |-> currentPlotType]

----------------------------------------------------------------------------
(* The page as index.html delivers it *)

InitialChecked == FALSE     \* the symmetric checkbox starts unchecked
InitialMode == "1"          \* both mode controls start at 1
\* the positions of the mode slider
ModeRangeValues == {Str(n) : n \in ModeMin..ModeMax}

NoRequest == <<>>
NoPlot == [defined |-> FALSE, traces |-> <<>>]
NoDisplay == [rendered |-> FALSE, latest |-> FALSE]
\* a tab button is enabled until a handler disables it
InitialDisabled == FALSE
\* the pages of the event specifications do not follow the slider attributes
NoRange == <<>>

----------------------------------------------------------------------------
(* main: the state when main returns *)

\* lines 191-204: buildSelector, then the default where the selector is empty
SelectDefault(keys, builtWith, fallback) ==
  LET v == BuildSelector(keys, builtWith) IN
  IF v = "" /\ fallback \in Range(keys) THEN fallback ELSE v

InitialSelects(o) ==
  [t |-> SelectDefault(o.transition_lines, Field(o.defaults, "transition_line"),
                       Field(o.defaults, "transition_line")),
   in |-> SelectDefault(o.capacitor_couplings, Field(o.defaults, "capacitor_couplings"),
                        Field(o.defaults, "input_coupling")),
   out |-> SelectDefault(o.capacitor_couplings, Field(o.defaults, "capacitor_couplings"),
                         Field(o.defaults, "output_coupling")),
   symmetric |-> SelectDefault(o.capacitor_couplings, Field(o.defaults, "capacitor_couplings"),
                               Field(o.defaults, "input_coupling")),
   s |-> SelectDefault(o.substrates, Field(o.defaults, "substrate"),
                       Field(o.defaults, "substrate"))]

\* renderAll: every container is rendered for its selector
RenderAll(o, select) == [slot \in Slots |-> RenderParamsFor(o, slot, select)]

\* the seeded entries of the tracked (selector, key) pairs
SeedStore(o, tracked) ==
  [x \in tracked |-> RenderParamsFor(o, x[1], [slot \in Slots |-> x[2]])]

\* lines 170-176: what main is left with when fetchOptions throws; the text
\* is the notice it alerts before it returns
FailedCatalog == [alert |-> "Could not load options: Failed to load options"]

\* handlers that are installed whether or not the catalog arrived
HandlersInstalledAlways == TRUE

\* lines 170-176: main returns from the catch, so the listeners of lines
\* 414-526 exist only when the catalog arrived
HandlersInstalled == opts # FailedCatalog

\* the page when fetchOptions threw: main returned after the alert, and the
\* selectors and containers are as index.html delivers them
InitFailed ==
  /\ opts = FailedCatalog
  /\ selectValue = [slot \in Slots |-> ""]
  /\ paramsContainer = [slot \in Slots |-> <<>>]
  /\ symmetric = InitialChecked
  /\ modeNumber = InitialMode
  /\ modeRange = InitialMode
  /\ currentPlotType = "lorentzian"
  /\ lorentzianTraces = <<>>
  /\ timers = <<>>
  /\ inflight = <<>>
  /\ lastReq = NoRequest
  /\ display = NoDisplay
  /\ plotData = NoPlot
  /\ resTabDisabled = InitialDisabled
  /\ range = NoRange
  /\ storedParams = <<>>
  /\ saveClicks = 0

InitWith(o, tracked) ==
  /\ opts = o
  /\ selectValue = InitialSelects(o)
  /\ paramsContainer = RenderAll(o, InitialSelects(o))
  /\ symmetric = InitialChecked
  /\ modeNumber = InitialMode
  /\ modeRange = InitialMode
  /\ currentPlotType = "lorentzian"
  /\ lorentzianTraces = <<>>
  /\ timers = Debounce(<<>>)
  /\ inflight = <<>>
  /\ lastReq = NoRequest
  /\ display = NoDisplay
  /\ plotData = NoPlot
  /\ resTabDisabled = InitialDisabled
  /\ range = NoRange
  /\ storedParams = SeedStore(o, tracked)
  /\ saveClicks = 0

Init == InitWith(ListedCatalog, {})

----------------------------------------------------------------------------
(* What the user can enter *)

\* texts typed into a parameter's number field ('' is the emptied field)
EditValues == {"", "7", "7.0"}

\* texts typed into the mode-number field
ModeTyped == {"", "2.5"} \cup {Str(n) : n \in (0 - 2)..MaxTyped}

PlotTypes == {"lorentzian", "quality_factors", "res_vs_coupling"}

\* the panels the page shows: the mirrored one when the box is checked, the
\* input and output ones when it is not
Visible(slot) == IF slot = "symmetric" THEN symmetric
                 ELSE IF slot \in {"in", "out"} THEN ~symmetric ELSE TRUE

\* history: the tracked entry of (slot, key) takes the values just written
Written(store, slot, key, values) ==
  [x \in DOMAIN store |-> IF x = <<slot, key>> THEN values ELSE store[x]]

----------------------------------------------------------------------------
(* Event handlers.  Every handler ends by calling the debounced doSimulate.  *)

\* lines 72-76: a number field of a visible panel is edited
ParamInput(slot, name, v) ==
  /\ Visible(slot)
  /\ name \in DOMAIN paramsContainer[slot]
  /\ v # paramsContainer[slot][name]
  /\ paramsContainer' = [paramsContainer EXCEPT ![slot][name] = v]
  /\ storedParams' = Written(storedParams, slot, selectValue[slot], paramsContainer'[slot])
  /\ timers' = Debounce(timers)
  /\ UNCHANGED <<opts, resTabDisabled, range, selectValue, symmetric, modeNumber, modeRange, currentPlotType,
                 lorentzianTraces, inflight, lastReq, display, plotData, saveClicks>>

\* lines 414 and 452: tSelect or sSelect is changed
PlainSelectChange(slot, k) ==
  /\ slot \in {"t", "s"}
  /\ k \in Range(opts[Category(slot)])
  /\ k # selectValue[slot]
  /\ selectValue' = [selectValue EXCEPT ![slot] = k]
  /\ paramsContainer' =
       [paramsContainer EXCEPT ![slot] = RenderParamsFor(opts, slot, selectValue')]
  /\ timers' = Debounce(timers)
  /\ UNCHANGED <<opts, resTabDisabled, range, symmetric, modeNumber, modeRange, currentPlotType,
                 lorentzianTraces, inflight, lastReq, display, plotData,
                 storedParams, saveClicks>>

\* lines 416-436: inSelect or outSelect is changed
CouplingSelectChange(slot, k) ==
  /\ slot \in {"in", "out"}
  /\ k \in Range(opts.capacitor_couplings)
  /\ k # selectValue[slot]
  /\ LET sel1 == [selectValue EXCEPT ![slot] = k]
         own == RenderParamsFor(opts, slot, sel1)
         sel2 == [sel1 EXCEPT !["symmetric"] = k]
     IN IF symmetric
        THEN /\ selectValue' = sel2
             /\ paramsContainer' =
                  [paramsContainer EXCEPT
                     ![slot] = own,
                     !["symmetric"] =
                        CopyParamValues(own, RenderParamsFor(opts, "symmetric", sel2))]
        ELSE /\ selectValue' = sel1
             /\ paramsContainer' = [paramsContainer EXCEPT ![slot] = own]
  /\ storedParams' =
       IF symmetric
       THEN Written(storedParams, "symmetric", k, paramsContainer'["symmetric"])
       ELSE storedParams
  /\ timers' = Debounce(timers)
  /\ UNCHANGED <<opts, resTabDisabled, range, symmetric, modeNumber, modeRange, currentPlotType,
                 lorentzianTraces, inflight, lastReq, display, plotData,
                 saveClicks>>

\* a mirrored-selector handler that renders the mirrored panel only
SymmetricSelectChangeAlone(k) ==
  /\ Visible("symmetric")
  /\ k \in Range(opts.capacitor_couplings)
  /\ k # selectValue["symmetric"]
  /\ selectValue' = [selectValue EXCEPT !["symmetric"] = k]
  /\ paramsContainer' =
       [paramsContainer EXCEPT
          !["symmetric"] = RenderParamsFor(opts, "symmetric", selectValue')]
  /\ timers' = Debounce(timers)
  /\ UNCHANGED <<opts, resTabDisabled, range, symmetric, modeNumber, modeRange, currentPlotType,
                 lorentzianTraces, inflight, lastReq, display, plotData,
                 storedParams, saveClicks>>

\* lines 438-450: the mirrored selector is changed
SymmetricSelectChange(k) ==
  /\ Visible("symmetric")
  /\ k \in Range(opts.capacitor_couplings)
  /\ k # selectValue["symmetric"]
  /\ LET sel == [selectValue EXCEPT !["symmetric"] = k, !["in"] = k, !["out"] = k]
         sym == RenderParamsFor(opts, "symmetric", sel)
     IN /\ selectValue' = sel
        /\ paramsContainer' =
             [paramsContainer EXCEPT
                !["symmetric"] = sym,
                !["in"] = CopyParamValues(sym, RenderParamsFor(opts, "in", sel)),
                !["out"] = CopyParamValues(sym, RenderParamsFor(opts, "out", sel))]
  /\ timers' = Debounce(timers)
  /\ UNCHANGED <<opts, resTabDisabled, range, symmetric, modeNumber, modeRange, currentPlotType,
                 lorentzianTraces, inflight, lastReq, display, plotData,
                 storedParams, saveClicks>>

\* a checkbox handler whose uncheck branch leaves the input and output
\* panels as they are
SymmetricCheckboxChangeNoRender ==
  /\ symmetric' = ~symmetric
  /\ IF symmetric'
     THEN LET sel == [selectValue EXCEPT !["symmetric"] = selectValue["in"]] IN
          /\ selectValue' = sel
          /\ paramsContainer' =
               [paramsContainer EXCEPT
                  !["symmetric"] =
                     CopyParamValues(paramsContainer["in"],
                                     RenderParamsFor(opts, "symmetric", sel))]
     ELSE UNCHANGED <<selectValue, paramsContainer>>
  /\ timers' = Debounce(timers)
  /\ UNCHANGED <<opts, resTabDisabled, range, modeNumber, modeRange, currentPlotType, lorentzianTraces,
                 inflight, lastReq, display, plotData, storedParams, saveClicks>>

\* lines 454-469: the symmetric checkbox is toggled
SymmetricCheckboxChange ==
  /\ symmetric' = ~symmetric
  /\ IF symmetric'
     THEN LET sel == [selectValue EXCEPT !["symmetric"] = selectValue["in"]] IN
          /\ selectValue' = sel
          /\ paramsContainer' =
               [paramsContainer EXCEPT
                  !["symmetric"] =
                     CopyParamValues(paramsContainer["in"],
                                     RenderParamsFor(opts, "symmetric", sel))]
     ELSE /\ selectValue' = selectValue
          /\ paramsContainer' =
               [paramsContainer EXCEPT
                  !["in"] = RenderParamsFor(opts, "in", selectValue),
                  !["out"] = RenderParamsFor(opts, "out", selectValue)]
  /\ storedParams' =
       IF symmetric'
       THEN Written(storedParams, "symmetric", selectValue'["symmetric"],
                    paramsContainer'["symmetric"])
       ELSE storedParams
  /\ timers' = Debounce(timers)
  /\ UNCHANGED <<opts, resTabDisabled, range, modeNumber, modeRange, currentPlotType, lorentzianTraces,
                 inflight, lastReq, display, plotData, saveClicks>>

\* a clamp that has lost its upper bound
ClampModeLowOnly(v) == IF v < ModeMin THEN ModeMin ELSE v

\* line 474: if (v < 1) v = 1; if (v > 10) v = 10
ClampMode(v) == IF v < ModeMin THEN ModeMin ELSE IF v > ModeMax THEN ModeMax ELSE v

\* lines 472-476: text is entered in the mode-number field
ModeNumberInput(v) ==
  /\ v \in ModeTyped
  /\ modeNumber' = Str(ClampMode(ParseIntOr1(v)))
  /\ modeRange' = modeNumber'
  /\ timers' = Debounce(timers)
  /\ UNCHANGED <<opts, resTabDisabled, range, selectValue, paramsContainer, symmetric, currentPlotType,
                 lorentzianTraces, inflight, lastReq, display, plotData,
                 storedParams, saveClicks>>

\* lines 477-479: the mode slider is moved
ModeRangeInput(v) ==
  /\ v \in ModeRangeValues
  /\ v # modeRange
  /\ modeRange' = v
  /\ modeNumber' = v
  /\ timers' = Debounce(timers)
  /\ UNCHANGED <<opts, resTabDisabled, range, selectValue, paramsContainer, symmetric, currentPlotType,
                 lorentzianTraces, inflight, lastReq, display, plotData,
                 storedParams, saveClicks>>

\* a tab handler that also drops the persisted traces
PlotTabClickClears(p) ==
  /\ p \in PlotTypes
  /\ p = "res_vs_coupling" => ~resTabDisabled
  /\ resTabDisabled' = ~symmetric
  /\ currentPlotType' = IF ~symmetric /\ p = "res_vs_coupling" THEN "quality_factors" ELSE p
  /\ lorentzianTraces' = <<>>
  /\ timers' = Debounce(timers)
  /\ UNCHANGED <<opts, range, selectValue, paramsContainer, symmetric, modeNumber, modeRange,
                 inflight, lastReq, display, plotData, storedParams, saveClicks>>

\* lines 482-501: a plot tab that is not disabled is clicked; the handler
\* disables the comparison tab when the box is unchecked, and the comparison
\* tab clicked then clicks the quality-factors tab from inside its handler
PlotTabClick(p) ==
  /\ p \in PlotTypes
  /\ p = "res_vs_coupling" => ~resTabDisabled
  /\ resTabDisabled' = ~symmetric
  /\ IF ~symmetric /\ p = "res_vs_coupling"
     THEN /\ currentPlotType' = "quality_factors"
          /\ timers' = Debounce(Debounce(timers))
     ELSE /\ currentPlotType' = p
          /\ timers' = Debounce(timers)
  /\ UNCHANGED <<opts, range, selectValue, paramsContainer, symmetric, modeNumber, modeRange,
                 lorentzianTraces, inflight, lastReq, display, plotData,
                 storedParams, saveClicks>>

SavedName(k) == <<"Saved 1", "Saved 2", "Saved 3", "Saved 4">>[k]

\* plot.data.find(t => t.name === 'Current'): the indexes of such traces
CurrentTraces(plot) == {i \in 1..Len(plot.traces) : plot.traces[i].name = "Current"}

\* lines 503-509: the save button is clicked.  Before the first render the
\* plot has no data and the handler throws; with no live trace it does nothing
SaveClick ==
  /\ saveClicks < MaxSaves
  /\ saveClicks' = saveClicks + 1
  /\ IF plotData.defined /\ CurrentTraces(plotData) # {}
     THEN LET i == CHOOSE j \in CurrentTraces(plotData) :
                      \A m \in CurrentTraces(plotData) : j <= m
              saved == [plotData.traces[i] EXCEPT
                          !.name = SavedName(Len(lorentzianTraces) + 1)]
          IN /\ lorentzianTraces' = Append(lorentzianTraces, saved)
             /\ timers' = Debounce(timers)
     ELSE UNCHANGED <<lorentzianTraces, timers>>
  /\ UNCHANGED <<opts, resTabDisabled, range, selectValue, paramsContainer, symmetric, modeNumber, modeRange,
                 currentPlotType, inflight, lastReq, display, plotData,
                 storedParams>>

\* a clear handler that does not call doSimulate
ClearClickSilent ==
  /\ lorentzianTraces' = <<>>
  /\ saveClicks' = 0
  /\ UNCHANGED <<opts, resTabDisabled, range, selectValue, paramsContainer, symmetric, modeNumber, modeRange,
                 currentPlotType, timers, inflight, lastReq, display, plotData,
                 storedParams>>

\* line 510: the clear button is clicked
ClearClick ==
  /\ lorentzianTraces' = <<>>
  /\ saveClicks' = 0
  /\ timers' = Debounce(timers)
  /\ UNCHANGED <<opts, resTabDisabled, range, selectValue, paramsContainer, symmetric, modeNumber, modeRange,
                 currentPlotType, inflight, lastReq, display, plotData,
                 storedParams>>

----------------------------------------------------------------------------
(* The debounced doSimulate *)

\* lines 224-272: the timeout expires; the request is built from the state
\* as it is now and posted, and the call suspends at the fetch
Fire ==
  /\ timers # <<>>
  /\ Len(inflight) < MaxInFlight
  /\ timers' = Tail(timers)
  /\ lastReq' = <<Payload>>
  /\ selectValue' =
       IF symmetric
       THEN [selectValue EXCEPT !["in"] = selectValue["symmetric"],
                                !["out"] = selectValue["symmetric"]]
       ELSE selectValue
  /\ inflight' =
       Append([i \in 1..Len(inflight) |-> [inflight[i] EXCEPT !.latest = FALSE]],
              [symmetric |-> symmetric, plot_type |-> currentPlotType, latest |-> TRUE])
  /\ display' = [display EXCEPT !.latest = FALSE]
  /\ UNCHANGED <<opts, resTabDisabled, range, paramsContainer, symmetric, modeNumber, modeRange,
                 currentPlotType, lorentzianTraces, plotData, storedParams, saveClicks>>

Remove(seq, i) == SubSeq(seq, 1, i - 1) \o SubSeq(seq, i + 1, Len(seq))

\* a render that forgets the persisted traces
TracesLiveOnly(call, hasPlot) ==
  IF currentPlotType = "quality_factors"
  THEN <<[name |-> Undefined, of |-> call.plot_type]>>
  ELSE IF hasPlot THEN <<[name |-> "Current", of |-> call.plot_type]>> ELSE <<>>

\* lines 285-315: the traces drawn for a response, by the plot type current
\* when it arrives
Traces(call, hasPlot) ==
  LET currentTrace == [name |-> "Current", of |-> call.plot_type] IN
  IF currentPlotType = "quality_factors"
  THEN <<[name |-> Undefined, of |-> call.plot_type]>>
  ELSE IF hasPlot
       THEN IF currentPlotType = "lorentzian"
            THEN Append(lorentzianTraces, currentTrace)
            ELSE <<currentTrace>>
       ELSE <<>>

\* lines 273-395: the response of call i arrives and is reconciled
RespondOk(i, hasPlot) ==
  /\ i \in 1..Len(inflight)
  /\ inflight' = Remove(inflight, i)
  /\ display' = [rendered |-> TRUE, latest |-> inflight[i].latest]
  /\ plotData' = [defined |-> TRUE, traces |-> Traces(inflight[i], hasPlot)]
  /\ UNCHANGED <<opts, resTabDisabled, range, selectValue, paramsContainer, symmetric, modeNumber, modeRange,
                 currentPlotType, lorentzianTraces, timers, lastReq, storedParams,
                 saveClicks>>

\* an error branch that blanks the results before it returns
RespondErrorBlank(i) ==
  /\ i \in 1..Len(inflight)
  /\ inflight' = Remove(inflight, i)
  /\ display' = NoDisplay
  /\ plotData' = NoPlot
  /\ UNCHANGED <<opts, resTabDisabled, range, selectValue, paramsContainer, symmetric, modeNumber, modeRange,
                 currentPlotType, lorentzianTraces, timers, lastReq,
                 storedParams, saveClicks>>

\* lines 274-277 and 397-399: call i gets an {error} response, or its fetch fails
RespondError(i) ==
  /\ i \in 1..Len(inflight)
  /\ inflight' = Remove(inflight, i)
  /\ UNCHANGED <<opts, resTabDisabled, range, selectValue, paramsContainer, symmetric, modeNumber, modeRange,
                 currentPlotType, lorentzianTraces, timers, lastReq, display, plotData,
                 storedParams, saveClicks>>

\* the timeout and the responses of a service that answers every call with
\* plot data
PlottingNetwork ==
  \/ Fire
  \/ \E i \in 1..MaxInFlight + 1 : RespondOk(i, TRUE)

\* the timeout and the responses of a service that answers every call
Network ==
  \/ Fire
  \/ \E i \in 1..MaxInFlight + 1 : \E hasPlot \in BOOLEAN : RespondOk(i, hasPlot)

\* the timeout and the responses of a service that can fail
FailingNetwork ==
  \/ Network
  \/ \E i \in 1..MaxInFlight + 1 : RespondError(i)

----------------------------------------------------------------------------
(* Specifications *)

\* every event of the page
Next ==
  \/ \E slot \in Slots : \E name \in {"length", "gap", "fingers", "permittivity", "loss"} :
        \E v \in EditValues : ParamInput(slot, name, v)
  \/ \E slot \in {"t", "s"} : \E k \in {"T1", "T2", "S1", "S2"} : PlainSelectChange(slot, k)
  \/ \E slot \in {"in", "out"} : \E k \in {"C1", "C2"} : CouplingSelectChange(slot, k)
  \/ \E k \in {"C1", "C2"} : SymmetricSelectChange(k)
  \/ SymmetricCheckboxChange
  \/ \E v \in ModeTyped : ModeNumberInput(v)
  \/ \E v \in ModeRangeValues : ModeRangeInput(v)
  \/ \E p \in PlotTypes : PlotTabClick(p)
  \/ SaveClick
  \/ ClearClick
  \/ FailingNetwork

Spec == Init /\ [][Next]_vars

ParamNames == {"length", "gap", "fingers", "permittivity", "loss"}

\* the coupling controls: the three coupling selectors and panels and the checkbox
CouplingEvents ==
  \/ \E slot \in {"in", "out", "symmetric"} : \E name \in ParamNames :
        \E v \in EditValues : ParamInput(slot, name, v)
  \/ \E slot \in {"in", "out"} : \E k \in {"C1", "C2"} : CouplingSelectChange(slot, k)
  \/ \E k \in {"C1", "C2"} : SymmetricSelectChange(k)
  \/ SymmetricCheckboxChange

NextCoupling == CouplingEvents \/ PlottingNetwork

SpecCoupling == Init /\ [][NextCoupling]_vars

\* one selector and panel of each category, each (selector, key) pair
\* tracked; no timeout expires
TrackedSlots == {"t", "s", "in"}

TrackedPairs ==
  {<<slot, k>> : slot \in {"t"}, k \in {"T1", "T2"}}
    \cup {<<slot, k>> : slot \in {"s"}, k \in {"S1", "S2"}}
    \cup {<<slot, k>> : slot \in {"in"}, k \in {"C1", "C2"}}

InitStore == InitWith(ListedCatalog, TrackedPairs)

NextStore ==
  \/ \E slot \in TrackedSlots : \E name \in ParamNames :
        \E v \in EditValues : ParamInput(slot, name, v)
  \/ \E slot \in {"t", "s"} : \E k \in {"T1", "T2", "S1", "S2"} : PlainSelectChange(slot, k)
  \/ \E k \in {"C1", "C2"} : CouplingSelectChange("in", k)

SpecStore == InitStore /\ [][NextStore]_vars

\* the mode controls
NextMode ==
  \/ \E v \in ModeTyped : ModeNumberInput(v)
  \/ \E v \in ModeRangeValues : ModeRangeInput(v)
  \/ Network

SpecMode == Init /\ [][NextMode]_vars

\* the plot tabs and the save and clear buttons
NextPlot ==
  \/ \E p \in PlotTypes : PlotTabClick(p)
  \/ SaveClick
  \/ ClearClick
  \/ Network

SpecPlot == Init /\ [][NextPlot]_vars

\* any listing order of the catalog; the user leaves the selections, the
\* parameters and the mode alone
InitAnyCatalog == \E o \in Catalogs : InitWith(o, {})

SpecDefaults == InitAnyCatalog /\ [][NextPlot]_vars

\* the plot tabs and buttons against a service that can fail
NextFailing ==
  \/ \E p \in PlotTypes : PlotTabClick(p)
  \/ SaveClick
  \/ ClearClick
  \/ FailingNetwork

SpecFailing == Init /\ [][NextFailing]_vars

\* a catalog fetch that succeeds with any listing order, or fails
InitCatalog == InitAnyCatalog \/ InitFailed

NextCatalog ==
  \/ HandlersInstalled /\ \E p \in PlotTypes : PlotTabClick(p)
  \/ HandlersInstalled /\ SaveClick
  \/ HandlersInstalled /\ ClearClick
  \/ Network

SpecCatalog == InitCatalog /\ [][NextCatalog]_vars

\* the coupling controls with the mirrored panel's entries tracked; no
\* timeout expires
MirrorPairs == {<<slot, k>> : slot \in {"symmetric"}, k \in {"C1", "C2"}}

InitMirror == InitWith(ListedCatalog, MirrorPairs)

SpecMirror == InitMirror /\ [][CouplingEvents]_vars

\* a parameter edit, a selection, the checkbox, a tab click, save and clear,
\* and a service that answers every call with plot data
NextLive ==
  \/ ParamInput("t", "length", "7")
  \/ PlainSelectChange("s", "S2")
  \/ SymmetricCheckboxChange
  \/ PlotTabClick("quality_factors")
  \/ SaveClick
  \/ ClearClick
  \/ PlottingNetwork

\* a response arrives for a call in flight
Responds == \E i \in 1..MaxInFlight + 1 : RespondOk(i, TRUE)

\* a pending timeout expires once the user pauses for the debounce wait, and
\* the service answers, so that the cap on calls in flight never holds an
\* expiry back for ever
SpecLive == Init /\ [][NextLive]_vars /\ WF_vars(Fire) /\ WF_vars(Responds)

\* the same events and a mode entry, against a service that can also fail
NextSurface ==
  \/ NextLive
  \/ ModeNumberInput("12")
  \/ \E i \in 1..MaxInFlight + 1 : RespondError(i)

SpecSurface == Init /\ [][NextSurface]_vars

\* the four selectors, the checkbox and edits of the input and mirrored panels
NextRequest ==
  \/ \E slot \in {"in", "symmetric"} : \E name \in ParamNames : ParamInput(slot, name, "7")
  \/ \E slot \in {"t", "s"} : \E k \in {"T1", "T2", "S1", "S2"} : PlainSelectChange(slot, k)
  \/ \E slot \in {"in", "out"} : \E k \in {"C1", "C2"} : CouplingSelectChange(slot, k)
  \/ \E k \in {"C1", "C2"} : SymmetricSelectChange(k)
  \/ SymmetricCheckboxChange
  \/ PlottingNetwork

SpecRequest == Init /\ [][NextRequest]_vars

\* the plot tabs, the buttons and the checkbox
NextTabs ==
  \/ NextPlot
  \/ SymmetricCheckboxChange

SpecTabs == Init /\ [][NextTabs]_vars

\* the numbers a parameter definition can give for a field
DefinitionNumbers == ((0 - MaxMagnitude)..MaxMagnitude) \cup {250}

\* the parameter definitions: any of default, min, max and step, or none
Definitions ==
  UNION {[fields -> DefinitionNumbers] : fields \in SUBSET {"default", "min", "max", "step"}}

\* line 62: createParamControl asks for the range of a definition
CreateParamControl(defn) ==
  /\ range' = [defn |-> defn, r |-> ComputeRange(defn)]
  /\ UNCHANGED <<opts, selectValue, paramsContainer, symmetric, modeNumber, modeRange,
                 currentPlotType, lorentzianTraces, timers, inflight, lastReq,
                 display, plotData, resTabDisabled, storedParams, saveClicks>>

\* the first control main builds, of any definition
InitRange ==
  /\ \E defn \in Definitions : range = [defn |-> defn, r |-> ComputeRange(defn)]
  /\ opts = ListedCatalog
  /\ selectValue = InitialSelects(ListedCatalog)
  /\ paramsContainer = RenderAll(ListedCatalog, InitialSelects(ListedCatalog))
  /\ symmetric = InitialChecked
  /\ modeNumber = InitialMode
  /\ modeRange = InitialMode
  /\ currentPlotType = "lorentzian"
  /\ lorentzianTraces = <<>>
  /\ timers = Debounce(<<>>)
  /\ inflight = <<>>
  /\ lastReq = NoRequest
  /\ display = NoDisplay
  /\ plotData = NoPlot
  /\ resTabDisabled = InitialDisabled
  /\ storedParams = <<>>
  /\ saveClicks = 0

NextRange == \E defn \in Definitions : CreateParamControl(defn)

SpecRange == InitRange /\ [][NextRange]_vars

----------------------------------------------------------------------------
(* Properties *)

\* the step is the expiry of a timeout: a request is posted
Fired == Len(inflight') = Len(inflight) + 1

\* the default of every parameter the catalog declares for an option
DefinitionDefaults(key) ==
  [name \in DOMAIN Parameters[key] |->
     IF "default" \in DOMAIN Parameters[key][name]
     THEN Parameters[key][name].default ELSE 0]

\* a panel showing exactly the definition defaults of an option
DefaultPanel(key) ==
  [name \in DOMAIN DefinitionDefaults(key) |-> Str(DefinitionDefaults(key)[name])]

\* a parameter set of a request holding exactly the definition defaults
DefaultParams(key) ==
  [name \in DOMAIN DefinitionDefaults(key) |-> Num(DefinitionDefaults(key)[name])]

\* the parameter set a request carries for a selector
ParamsFor(request, slot) ==
  IF slot = "t" THEN request.transition_line_params
  ELSE IF slot = "s" THEN request.substrate_params
  ELSE IF slot = "in" THEN request.input_coupling_params
  ELSE request.output_coupling_params

\* C1: Debounce coalescing.  However many notifications arrive while a
\* timeout is pending, one timeout at most stays pending, so the burst ends in
\* one expiry; that expiry posts one request, built from the selections and
\* parameter values as they are when it happens, and no other step posts one.
DebounceCoalescing ==
  [][/\ Len(timers') <= 1
     /\ Fired => /\ timers' = <<>>
                 /\ lastReq' = <<Payload>>
                 /\ Payload.input_coupling_params =
                      CollectParams(paramsContainer[IF symmetric THEN "symmetric" ELSE "in"])
     /\ ~Fired => lastReq' = lastReq]_vars

\* the first request ever posted (nothing rendered yet, one call in flight, no
\* timeout left) carries an edit made after main's own notification
DebounceWitness ==
  /\ timers = <<>>
  /\ Len(inflight) = 1
  /\ ~display.rendered
  /\ lastReq # <<>>
  /\ lastReq[1].input_coupling_params = [gap |-> Num(7)]

SymmetricRoundTrip ==
  [][(symmetric /\ ~symmetric'
        /\ selectValue'["in"] = selectValue["symmetric"]
        /\ selectValue'["out"] = selectValue["symmetric"])
     => /\ CollectParams(paramsContainer'["in"]) = CollectParams(paramsContainer["symmetric"])
        /\ CollectParams(paramsContainer'["out"]) = CollectParams(paramsContainer["symmetric"])]_vars

\* C4: Symmetric invariant (I3).  While the box is checked the input and
\* output selectors name the mirrored key and the input and output panels
\* hold the mirrored panel's values.
SymmetricInvariant ==
  symmetric =>
    /\ selectValue["in"] = selectValue["symmetric"]
    /\ selectValue["out"] = selectValue["symmetric"]
    /\ CollectParams(paramsContainer["in"]) = CollectParams(paramsContainer["symmetric"])
    /\ CollectParams(paramsContainer["out"]) = CollectParams(paramsContainer["symmetric"])

\* C5: Symmetric request resolution.  A request built while the box is
\* checked names the mirrored key for input and output and carries the
\* mirrored panel's values for both; one built while it is unchecked takes
\* each from its own selector and panel.
SymmetricRequestResolution ==
  [][Fired =>
       LET r == lastReq'[1] IN
       IF symmetric
       THEN /\ r.input_coupling = selectValue["symmetric"]
            /\ r.output_coupling = selectValue["symmetric"]
            /\ r.input_coupling_params = CollectParams(paramsContainer["symmetric"])
            /\ r.output_coupling_params = CollectParams(paramsContainer["symmetric"])
       ELSE /\ r.input_coupling = selectValue["in"]
            /\ r.output_coupling = selectValue["out"]
            /\ r.input_coupling_params = CollectParams(paramsContainer["in"])
            /\ r.output_coupling_params = CollectParams(paramsContainer["out"])]_vars

\* the latest request was built with the box checked, from a mirrored panel
\* that was edited and differs from the output panel
SymmetricRequestWitness ==
  /\ inflight # <<>>
  /\ inflight[Len(inflight)].latest
  /\ inflight[Len(inflight)].symmetric
  /\ lastReq[1].output_coupling_params = [gap |-> Num(7)]
  /\ CollectParams(paramsContainer["out"]) # [gap |-> Num(7)]

\* the parameter sets of a request
ParamSets(request) ==
  {request.transition_line_params, request.input_coupling_params,
   request.output_coupling_params, request.substrate_params}

\* the bound nearest to an integer
NearestMode(v) == IF v < 1 THEN 1 ELSE IF v > 10 THEN 10 ELSE v

\* C6: Mode-number clamping (I4).  The mode-number control always holds an
\* integer of 1..10 and so does the n of every request; a number typed into
\* the field is replaced by the nearest integer of 1..10.
ModeClamped ==
  /\ [](/\ \E n \in 1..10 : modeNumber = Str(n)
        /\ lastReq # <<>> => lastReq[1].n \in 1..10)
  /\ [][\A v \in ModeTyped :
          (ModeNumberInput(v) /\ IsNumeric(v))
          => modeNumber' = Str(NearestMode(ParseInt(v)))]_vars

\* a request was posted with n = 10 and the field shows 10
ModeWitness ==
  /\ modeNumber = "10"
  /\ lastReq # <<>>
  /\ lastReq[1].n = 10

\* C7: Empty-input coercion.  No request carries null as a parameter value.
NoNullInRequest ==
  lastReq # <<>> =>
    \A set \in ParamSets(lastReq[1]) : \A name \in DOMAIN set : set[name] # Null

\* the live trace among the traces drawn, if there is one
HasLiveTrace(plot) == plot.defined /\ CurrentTraces(plot) # {}

\* C8 as stated: Saved-trace accumulation.  Two clicks of save with no clear
\* in between leave exactly two persisted traces.
SavedTwice == saveClicks = 2 => Len(lorentzianTraces) = 2

\* C8 as amended: a click of save while the plot holds a live trace appends
\* exactly one trace, named by its position, and a click while it holds none
\* appends nothing; after clear no trace is persisted; and a response
\* reconciled while the profile tab is current draws either nothing (the
\* response has no plot data) or the persisted traces followed by the live one.
SavedTraceAccumulation ==
  /\ [](saveClicks = 0 => lorentzianTraces = <<>>)
  /\ [][/\ saveClicks' = saveClicks + 1 =>
             IF HasLiveTrace(plotData)
             THEN /\ Len(lorentzianTraces') = Len(lorentzianTraces) + 1
                  /\ SubSeq(lorentzianTraces', 1, Len(lorentzianTraces)) = lorentzianTraces
                  /\ lorentzianTraces'[Len(lorentzianTraces')].name =
                       SavedName(Len(lorentzianTraces'))
             ELSE lorentzianTraces' = lorentzianTraces
        /\ (Len(inflight') < Len(inflight) /\ currentPlotType = "lorentzian") =>
             \/ plotData'.traces = <<>>
             \/ /\ Len(plotData'.traces) = Len(lorentzianTraces) + 1
                /\ SubSeq(plotData'.traces, 1, Len(lorentzianTraces)) = lorentzianTraces
                /\ plotData'.traces[Len(plotData'.traces)].name = "Current"]_vars

\* two traces are persisted and the plot shows them followed by the live one
SavedTraceWitness ==
  /\ saveClicks = 2
  /\ Len(lorentzianTraces) = 2
  /\ plotData.defined
  /\ Len(plotData.traces) = 3
  /\ plotData.traces[3].name = "Current"

\* C9: Default scenario.  With no user edit, a request names the catalog's
\* four defaults and carries the definition defaults of each.
DefaultScenario ==
  lastReq # <<>> =>
    LET r == lastReq[1] IN
    /\ r.transition_line = opts.defaults.transition_line
    /\ r.input_coupling = opts.defaults.input_coupling
    /\ r.output_coupling = opts.defaults.output_coupling
    /\ r.substrate = opts.defaults.substrate
    /\ r.transition_line_params = DefaultParams(opts.defaults.transition_line)
    /\ r.input_coupling_params = DefaultParams(opts.defaults.input_coupling)
    /\ r.output_coupling_params = DefaultParams(opts.defaults.output_coupling)
    /\ r.substrate_params = DefaultParams(opts.defaults.substrate)

\* C10: Latest-request-wins.  When no call is in flight, what is displayed
\* was returned for the most recently issued request.
LatestRequestWins ==
  (inflight = <<>> /\ lastReq # <<>>) => (display.rendered /\ display.latest)

\* C11: Simulation failure leaves the display unchanged.  When a call gets
\* an error response or its fetch fails, the displayed results, the plot and
\* the persisted traces are what they were.
FailureLeavesDisplay ==
  [][\A i \in 1..MaxInFlight + 1 :
       RespondError(i) => /\ display' = display
                          /\ plotData' = plotData
                          /\ lorentzianTraces' = lorentzianTraces]_vars

\* every request posted has failed: none is in flight and nothing was rendered
FailureWitness ==
  /\ lastReq # <<>>
  /\ inflight = <<>>
  /\ display = NoDisplay
  /\ plotData = NoPlot

\* C12: Catalog failure is fatal.  When the catalog fetch has failed, the
\* selectors are empty, the panels hold no control, no timeout is pending, no
\* request was posted, and no event of the page changes anything.
CatalogFailureFatal ==
  /\ [](opts = FailedCatalog =>
          /\ selectValue = [slot \in Slots |-> ""]
          /\ paramsContainer = [slot \in Slots |-> <<>>]
          /\ timers = <<>>
          /\ inflight = <<>>
          /\ lastReq = NoRequest)
  /\ [][opts # FailedCatalog]_vars

\* the page of a failed catalog fetch
CatalogFailureWitness ==
  /\ opts = FailedCatalog
  /\ selectValue["t"] = ""
  /\ lastReq = NoRequest

\* C13: Last-writer-wins re-selection in Symmetric mode.  When the input
\* (output) selector is changed to K with the box checked, the handler leaves
\* the mirrored selector on K with K's parameters, and the output (input)
\* selector on K with a panel of K's parameters holding the same values.
SymmetricLastWriterWins ==
  [][\A slot \in {"in", "out"} : \A k \in {"C1", "C2"} :
       (symmetric /\ CouplingSelectChange(slot, k)) =>
         LET other == IF slot = "in" THEN "out" ELSE "in" IN
         /\ selectValue'["symmetric"] = k
         /\ DOMAIN paramsContainer'["symmetric"] = DOMAIN Parameters[k]
         /\ selectValue'[other] = k
         /\ DOMAIN paramsContainer'[other] = DOMAIN Parameters[k]
         /\ CollectParams(paramsContainer'[other]) =
              CollectParams(paramsContainer'["symmetric"])]_vars

SymmetricEnableClones ==
  [][/\ (~symmetric /\ symmetric') =>
          /\ selectValue'["symmetric"] = selectValue["in"]
          /\ CollectParams(paramsContainer'["symmetric"]) =
               CollectParams(paramsContainer["in"])
          /\ paramsContainer'["in"] = paramsContainer["in"]
     /\ (symmetric /\ symmetric' /\ selectValue' = selectValue
           /\ paramsContainer'["symmetric"] # paramsContainer["symmetric"])
        => paramsContainer'["in"] = paramsContainer["in"]]_vars

\* C16: Saved traces are append-only until cleared.  A step that changes the
\* persisted traces is a click of save, which appends one trace and keeps the
\* earlier ones, or a click of clear, which leaves none; no request, response,
\* selection, edit, mode entry, toggle or tab click changes them.
SavedTracesFrame ==
  [][lorentzianTraces' # lorentzianTraces =>
       \/ /\ SaveClick
          /\ Len(lorentzianTraces') = Len(lorentzianTraces) + 1
          /\ SubSeq(lorentzianTraces', 1, Len(lorentzianTraces)) = lorentzianTraces
       \/ /\ ClearClick
          /\ lorentzianTraces' = <<>>]_vars

\* two traces are persisted, and since then an edit, a selection, a toggle, a
\* mode entry and a tab click went into a request whose response was drawn
SavedTracesWitness ==
  /\ Len(lorentzianTraces) = 2
  /\ symmetric
  /\ lastReq # <<>>
  /\ lastReq[1].transition_line_params = [length |-> Num(7)]
  /\ lastReq[1].substrate = "S2"
  /\ lastReq[1].n = 10
  /\ lastReq[1].plot_type = "quality_factors"
  /\ inflight = <<>>
  /\ display.latest

\* the values a parameter set can hold for an option: the definition default
\* of each parameter, or the value typed (7)
DefaultOrTyped(set, key) ==
  /\ DOMAIN set = DOMAIN Parameters[key]
  /\ \A name \in DOMAIN set : set[name] \in {DefaultParams(key)[name], Num(7)}

\* C17: Request well-formedness (I1).  Each parameter set of a request holds
\* exactly the parameter names declared for the key the request names for
\* that slot; a parameter that was never edited (every parameter of the
\* transition line, the substrate and the output panel here) carries its
\* definition default, and an edited one its default or the value typed.
RequestWellFormed ==
  [][Fired =>
       LET r == lastReq'[1] IN
       /\ r.transition_line_params = DefaultParams(r.transition_line)
       /\ r.substrate_params = DefaultParams(r.substrate)
       /\ DefaultOrTyped(r.input_coupling_params, r.input_coupling)
       /\ DefaultOrTyped(r.output_coupling_params, r.output_coupling)
       /\ ~symmetric => r.output_coupling_params = DefaultParams(r.output_coupling)]_vars

\* a request of the independent layout after selections on every selector
\* and an edit of the input panel
RequestWitness ==
  /\ lastReq # <<>>
  /\ lastReq[1].transition_line = "T2"
  /\ lastReq[1].substrate = "S2"
  /\ lastReq[1].input_coupling = "C2"
  /\ lastReq[1].input_coupling_params = [fingers |-> Num(7)]
  /\ lastReq[1].output_coupling = "C1"
  /\ lastReq[1].output_coupling_params = [gap |-> Num(1)]

\* C20: The comparison plot only in Symmetric mode.  No request built while
\* the box is unchecked asks for the res_vs_coupling plot.
ComparisonOnlySymmetric ==
  [][(Fired /\ ~symmetric) => lastReq'[1].plot_type # "res_vs_coupling"]_vars

\* C19: Range inference.  For a definition that lacks min or max the range
\* is [-1, 1] for the default 0, [0.5 d, 1.5 d] for d > 0 and [1.5 d, 0.5 d]
\* for d < 0, so min <= d <= max; a definition that gives both gets them back
\* unchanged; and a definition with no step, or step 0, gets a step above 0.
RangeInference ==
  LET defn == range.defn
      r == range.r
      d == IF "default" \in DOMAIN defn THEN defn.default * Scale ELSE 0
  IN /\ r.default = d
     /\ IF "min" \in DOMAIN defn /\ "max" \in DOMAIN defn
        THEN r.min = defn.min * Scale /\ r.max = defn.max * Scale
        ELSE /\ d = 0 => (r.min = 0 - Scale /\ r.max = Scale)
             /\ d > 0 => (2 * r.min = d /\ 2 * r.max = 3 * d)
             /\ d < 0 => (2 * r.min = 3 * d /\ 2 * r.max = d)
             /\ r.min <= d /\ d <= r.max
     /\ ("step" \notin DOMAIN defn \/ defn.step = 0) => r.step > 0

\* the range inferred for a definition whose only field is a negative default
RangeWitness ==
  /\ range.defn = [default |-> 0 - MaxMagnitude]
  /\ 2 * range.r.min = (0 - MaxMagnitude) * 3 * Scale
  /\ 2 * range.r.max = (0 - MaxMagnitude) * Scale
  /\ 100 * range.r.step = MaxMagnitude * Scale

TracesOfRequest(call, hasPlot) ==
  LET currentTrace == [name |-> "Current", of |-> call.plot_type] IN
  IF call.plot_type = "quality_factors"
  THEN <<[name |-> Undefined, of |-> call.plot_type]>>
  ELSE IF hasPlot
       THEN IF call.plot_type = "lorentzian"
            THEN Append(lorentzianTraces, currentTrace)
            ELSE <<currentTrace>>
       ELSE <<>>

\* C21: The plot of a response follows its own request.  A response is
\* drawn by the plot type its request carried (bars for quality_factors, the
\* persisted traces and the live one for lorentzian, one line otherwise),
\* whatever tab is current when it arrives.
PlotFollowsRequest ==
  [][\A i \in 1..MaxInFlight + 1 : \A hasPlot \in BOOLEAN :
       RespondOk(i, hasPlot) =>
         plotData'.traces = TracesOfRequest(inflight[i], hasPlot)]_vars

\* C22: Provenance of the persisted traces.  Every persisted trace is a copy
\* of a live trace returned for a request of plot type lorentzian and is named
\* by its position.
SavedTracesAreProfiles ==
  \A k \in 1..Len(lorentzianTraces) :
    /\ lorentzianTraces[k].of = "lorentzian"
    /\ lorentzianTraces[k].name = SavedName(k)

====
